---- MODULE Spec2Model ----
(***************************************************************************)
(* A model of the terminal IDE of src/main.py: the Explorer list (current  *)
(* directory, master entries, rendered view, selection), the edit session  *)
(* of TerminalIDE (current_file, _dirty, editor text), the save-path       *)
(* prompt (_awaiting_save_path, filter_input.value) and the unsaved-changes*)
(* confirmation (SaveConfirm) awaited by _maybe_proceed_after_unsaved.     *)
(*                                                                         *)
(* Data: a character is a one-character string, a name or an input text is *)
(* a sequence of characters, a path is the sequence of its components (the *)
(* filesystem root is the empty sequence).  Buffer and file contents are   *)
(* opaque strings.                                                         *)
(*                                                                         *)
(* Framework behaviour the handlers rest on (textual is not part of the    *)
(* repository): a handler runs to completion or to its await; messages a   *)
(* handler posts (TextArea.Changed, Input.Changed) are queued and handled  *)
(* before the next user intent; while a ModalScreen is shown the only      *)
(* bindings that still reach the App are priority bindings (the inherited  *)
(* quit binding), so a confirmation can be stacked on another one.         *)
(***************************************************************************)
EXTENDS Integers, Sequences, FiniteSets, TLC

VARIABLES
    dirs,                \* filesystem: the existing directories (paths)
    files,               \* filesystem: existing file path -> content
    denied,              \* filesystem: directories whose enumeration is refused
    start_path,          \* TerminalIDE.start_path (the process working directory)
    current_path,        \* Explorer.current_path
    show_hidden,         \* Explorer.show_hidden
    entries,             \* Explorer._entries, the master list
    children,            \* the ListView's items (the data of each), the rendered view
    index,               \* ListView.index
    current_file,        \* TerminalIDE.current_file, NoPath for None
    dirty,               \* TerminalIDE._dirty
    awaiting_save_path,  \* TerminalIDE._awaiting_save_path
    input_value,         \* filter_input.value
    status_path,         \* StatusBar.path
    status_dirty,        \* StatusBar.dirty
    text,                \* the editor's text
    focus,               \* the focused widget: "explorer", "editor" or "filter"
    gates,               \* suspended _maybe_proceed_after_unsaved calls, top last
    queue,               \* posted messages not yet handled
    exited,              \* App.exit() was called
    last,                \* the handler that ran last (with the answer it resumed on)
    notice,              \* what that handler signalled: "none", "bell" or "error"
    wrote,               \* the path that handler wrote the buffer to, else NoPath
    prompt_owner         \* the handler that opened the save-path prompt last

vars == <<dirs, files, denied, start_path, current_path, show_hidden, entries,
          children, index, current_file, dirty, awaiting_save_path, input_value,
          status_path, status_dirty, text, focus, gates, queue, exited, last,
          notice, wrote, prompt_owner>>

----------------------------------------------------------------------------
(* Bounds *)

\* how many confirmations may be stacked (requests re-entering the gate)
MaxGates == 2

----------------------------------------------------------------------------
(* Characters, names, paths *)

Upper == <<"A", "B", "C", "D", "E", "F", "G", "H", "I", "J", "K", "L", "M",
           "N", "O", "P", "Q", "R", "S", "T", "U", "V", "W", "X", "Y", "Z">>
Lowers == <<"a", "b", "c", "d", "e", "f", "g", "h", "i", "j", "k", "l", "m",
            "n", "o", "p", "q", "r", "s", "t", "u", "v", "w", "x", "y", "z">>

\* the characters in code-point order: space, '.', '/', A-Z, a-z
Ascii == <<" ", ".", "/">> \o Upper \o Lowers

CharCode(c) == CHOOSE i \in 1..Len(Ascii) : Ascii[i] = c

LowerChar(c) ==
    IF \E i \in 1..Len(Upper) : Upper[i] = c
    THEN Lowers[CHOOSE i \in 1..Len(Upper) : Upper[i] = c]
    ELSE c

\* str.lower()
Lower(s) == [i \in 1..Len(s) |-> LowerChar(s[i])]

RECURSIVE Strip(_)
\* str.strip()
Strip(s) ==
    IF s = <<>> THEN s
    ELSE IF Head(s) = " " THEN Strip(Tail(s))
    ELSE IF s[Len(s)] = " " THEN Strip(SubSeq(s, 1, Len(s) - 1))
    ELSE s

\* q in s, for strings
Contains(q, s) ==
    \E i \in 0..(Len(s) - Len(q)) : SubSeq(s, i + 1, i + Len(q)) = q

StartsWith(s, c) == Len(s) > 0 /\ s[1] = c

RECURSIVE LexLess(_, _)
\* s < t, for strings
LexLess(s, t) ==
    IF t = <<>> THEN FALSE
    ELSE IF s = <<>> THEN TRUE
    ELSE IF CharCode(Head(s)) # CharCode(Head(t))
         THEN CharCode(Head(s)) < CharCode(Head(t))
    ELSE LexLess(Tail(s), Tail(t))

Root == <<>>

\* None, where a path is optional: no path has an empty component
NoPath == << <<>> >>

\* Path.parent: the root is its own parent
Parent(p) == IF p = Root THEN Root ELSE SubSeq(p, 1, Len(p) - 1)

\* Path.name
BaseName(p) == IF p = Root THEN <<>> ELSE p[Len(p)]

Untitled == <<"u", "n", "t", "i", "t", "l", "e", "d", ".", "t", "x", "t">>

RECURSIVE JoinNames(_)
JoinNames(p) ==
    IF p = <<>> THEN <<>>
    ELSE IF Len(p) = 1 THEN p[1]
    ELSE p[1] \o <<"/">> \o JoinNames(Tail(p))

\* str(path), of an absolute path
StrOf(p) == <<"/">> \o JoinNames(p)

RECURSIVE SplitSlash(_, _)
\* s.split("/"), cur being the component read so far
SplitSlash(s, cur) ==
    IF s = <<>> THEN <<cur>>
    ELSE IF Head(s) = "/" THEN <<cur>> \o SplitSlash(Tail(s), <<>>)
    ELSE SplitSlash(Tail(s), Append(cur, Head(s)))

RECURSIVE Normalise(_, _)
\* the components applied to base: empty and "." skipped, ".." going up
Normalise(base, comps) ==
    IF comps = <<>> THEN base
    ELSE IF Head(comps) = <<>> \/ Head(comps) = <<".">>
         THEN Normalise(base, Tail(comps))
    ELSE IF Head(comps) = <<".", ".">>
         THEN Normalise(Parent(base), Tail(comps))
    ELSE Normalise(Append(base, Head(comps)), Tail(comps))

\* Path(s).expanduser().resolve(), cwd being the process working directory
ResolveStr(s, cwd) ==
    Normalise(IF StartsWith(s, "/") THEN Root ELSE cwd, SplitSlash(s, <<>>))

----------------------------------------------------------------------------
(* The program state as one record s, so that a handler is a function from *)
(* the state it starts in to the state it leaves, and calls compose.       *)

Cur ==
    [dirs |-> dirs, files |-> files, denied |-> denied, start_path |-> start_path,
     current_path |-> current_path, show_hidden |-> show_hidden,
     entries |-> entries, children |-> children, index |-> index,
     current_file |-> current_file, dirty |-> dirty,
     awaiting_save_path |-> awaiting_save_path, input_value |-> input_value,
     status_path |-> status_path, status_dirty |-> status_dirty, text |-> text,
     focus |-> focus, gates |-> gates, queue |-> queue, exited |-> exited,
     last |-> last, notice |-> notice, wrote |-> wrote,
     prompt_owner |-> prompt_owner]

Becomes(s) ==
    /\ dirs' = s.dirs /\ files' = s.files /\ denied' = s.denied
    /\ start_path' = s.start_path
    /\ current_path' = s.current_path /\ show_hidden' = s.show_hidden
    /\ entries' = s.entries /\ children' = s.children /\ index' = s.index
    /\ current_file' = s.current_file /\ dirty' = s.dirty
    /\ awaiting_save_path' = s.awaiting_save_path /\ input_value' = s.input_value
    /\ status_path' = s.status_path /\ status_dirty' = s.status_dirty
    /\ text' = s.text /\ focus' = s.focus /\ gates' = s.gates /\ queue' = s.queue
    /\ exited' = s.exited /\ last' = s.last /\ notice' = s.notice
    /\ wrote' = s.wrote /\ prompt_owner' = s.prompt_owner

\* the state a handler named op starts in
Begin(op) == [Cur EXCEPT !.last = op, !.notice = "none", !.wrote = NoPath]

----------------------------------------------------------------------------
(* The filesystem, as the handlers see it *)

IsDir(s, p) == p \in s.dirs

IsFile(s, p) == p \in DOMAIN s.files

\* path.iterdir(), as a set
ChildrenOf(s, path) ==
    {d \in s.dirs : d # Root /\ Parent(d) = path}
        \cup {f \in DOMAIN s.files : Parent(f) = path}

\* path.write_text can succeed: the parent is a directory, the target is not
Writable(s, p) == p # Root /\ IsDir(s, Parent(p)) /\ ~IsDir(s, p)

\* the files after path.write_text(t) succeeded
FilesWith(fs, p, t) == [f \in (DOMAIN fs) \cup {p} |-> IF f = p THEN t ELSE fs[f]]

\* the placeholder Editor.show_file loads when the read fails
ReadError == "[read error]"

ReadText(s, p) == IF IsFile(s, p) THEN s.files[p] ELSE ReadError

----------------------------------------------------------------------------
(* Explorer *)

\* ListView.index is None
NoIndex == 0 - 1

Entry(path, is_dir, is_up, name) ==
    [path |-> path, is_dir |-> is_dir, is_up |-> is_up, name |-> name]

\* the sort key without .lower()
SortKeyLess_CaseSensitive(s, p, q) ==
    LET fp == IF IsDir(s, p) THEN 0 ELSE 1
        fq == IF IsDir(s, q) THEN 0 ELSE 1
    IN  \/ fp < fq
        \/ fp = fq /\ LexLess(BaseName(p), BaseName(q))

\* the key of sorted(): (0 if p.is_dir() else 1, p.name.lower())
SortKeyLess(s, p, q) ==
    LET fp == IF IsDir(s, p) THEN 0 ELSE 1
        fq == IF IsDir(s, q) THEN 0 ELSE 1
    IN  \/ fp < fq
        \/ fp = fq /\ LexLess(Lower(BaseName(p)), Lower(BaseName(q)))

RECURSIVE SortedItems(_, _)
SortedItems(s, S) ==
    IF S = {} THEN <<>>
    ELSE LET m == CHOOSE x \in S : \A o \in S \ {x} : ~SortKeyLess(s, o, x)
         IN  <<m>> \o SortedItems(s, S \ {m})

\* p.name + ("/" if p.is_dir() else "")
DisplayName(s, p) == BaseName(p) \o (IF IsDir(s, p) THEN <<"/">> ELSE <<>>)

\* the master list with no parent to link to at the root
Listing_NoParentAtRoot(s, path) ==
    LET up    == Entry(IF path = Root THEN NoPath ELSE Parent(path),
                       TRUE, TRUE, <<".", ".">>)
        items == IF path \in s.denied THEN <<>>
                 ELSE SortedItems(s, ChildrenOf(s, path))
        Keep(p) == s.show_hidden \/ ~StartsWith(DisplayName(s, p), ".")
        shown == SelectSeq(items, Keep)
    IN  <<up>> \o [i \in 1..Len(shown) |->
                     Entry(shown[i], IsDir(s, shown[i]), FALSE,
                           DisplayName(s, shown[i]))]

\* the master list load_directory builds for an existing directory
Listing(s, path) ==
    LET up    == Entry(Parent(path), TRUE, TRUE, <<".", ".">>)
        items == IF path \in s.denied THEN <<>>
                 ELSE SortedItems(s, ChildrenOf(s, path))
        Keep(p) == s.show_hidden \/ ~StartsWith(DisplayName(s, p), ".")
        shown == SelectSeq(items, Keep)
    IN  <<up>> \o [i \in 1..Len(shown) |->
                     Entry(shown[i], IsDir(s, shown[i]), FALSE,
                           DisplayName(s, shown[i]))]

\* Explorer._render_entries
RenderEntries(s, es) ==
    [s EXCEPT !.children = es, !.index = IF Len(es) > 0 THEN 0 ELSE NoIndex]

\* load_directory without the exists() / is_dir() check
LoadDirectory_Unchecked(s, path) ==
    LET es == Listing(s, path)
    IN  RenderEntries([s EXCEPT !.current_path = path, !.entries = es], es)

\* Explorer.load_directory
LoadDirectory(s, path) ==
    IF ~IsDir(s, path) THEN s
    ELSE LET es == Listing(s, path)
         IN  RenderEntries([s EXCEPT !.current_path = path, !.entries = es], es)

\* apply_filter without "e.is_up or"
Filtered_NoParentLink(es, query) ==
    IF query = <<>> THEN es
    ELSE LET q == Lower(query)
             Keep(e) == Contains(q, Lower(e.name))
         IN  SelectSeq(es, Keep)

\* apply_filter comparing with e.name as it is
Filtered_CaseSensitive(es, query) ==
    IF query = <<>> THEN es
    ELSE LET q == Lower(query)
             Keep(e) == e.is_up \/ Contains(q, e.name)
         IN  SelectSeq(es, Keep)

\* the list apply_filter renders
Filtered(es, query) ==
    IF query = <<>> THEN es
    ELSE LET q == Lower(query)
             Keep(e) == e.is_up \/ Contains(q, Lower(e.name))
         IN  SelectSeq(es, Keep)

\* Explorer.apply_filter
ApplyFilter(s, query) == RenderEntries(s, Filtered(s.entries, query))

\* Explorer.get_selected_entry returns an entry (not None)
HasSelected(s) == s.index # NoIndex /\ s.index + 1 \in 1..Len(s.children)

SelectedEntry(s) == s.children[s.index + 1]

----------------------------------------------------------------------------
(* TerminalIDE: helpers *)

TextAreaChanged == [kind |-> "TextArea.Changed", value |-> <<>>]

InputChanged(v) == [kind |-> "Input.Changed", value |-> v]

\* filter_input.value = v: the Input posts Input.Changed when its value changes
SetInputValue(s, v) ==
    IF v = s.input_value THEN s
    ELSE [s EXCEPT !.input_value = v, !.queue = Append(@, InputChanged(v))]

\* TerminalIDE._set_dirty
SetDirty(s, value) == [s EXCEPT !.dirty = value, !.status_dirty = value]

\* Editor.show_file: read_text, then load_text, which posts TextArea.Changed
\* in the builds of the framework where loading text counts as a change
ShowFile(s, path, posts) ==
    [s EXCEPT !.text = ReadText(s, path),
              !.queue = IF posts THEN Append(@, TextAreaChanged) ELSE @]

\* TerminalIDE._open_file
OpenFile(s, path, posts) ==
    LET s1 == ShowFile(s, path, posts)
        s2 == SetDirty([s1 EXCEPT !.current_file = path], FALSE)
    IN  [s2 EXCEPT !.status_path = StrOf(Parent(path))]

\* _write_to_path with _set_dirty(False) moved out of the try block
WriteToPath_ClearsDirtyAnyway(s, path, ok) ==
    IF ok /\ Writable(s, path)
    THEN LET s1 == [s EXCEPT !.files = FilesWith(@, path, s.text),
                             !.wrote = path,
                             !.current_file = path]
             s2 == SetDirty(s1, FALSE)
         IN  [s2 EXCEPT !.status_path = StrOf(Parent(path)), !.notice = "bell"]
    ELSE [SetDirty(s, FALSE) EXCEPT !.notice = "error"]

\* _write_to_path with current_file assigned before write_text
WriteToPath_PathBeforeWrite(s, path, ok) ==
    IF ok /\ Writable(s, path)
    THEN LET s1 == [s EXCEPT !.files = FilesWith(@, path, s.text),
                             !.wrote = path,
                             !.current_file = path]
             s2 == SetDirty(s1, FALSE)
         IN  [s2 EXCEPT !.status_path = StrOf(Parent(path)), !.notice = "bell"]
    ELSE [s EXCEPT !.current_file = path, !.notice = "error"]

\* TerminalIDE._write_to_path; ok: the filesystem accepts the write
WriteToPath(s, path, ok) ==
    IF ok /\ Writable(s, path)
    THEN LET s1 == [s EXCEPT !.files = FilesWith(@, path, s.text),
                             !.wrote = path,
                             !.current_file = path]
             s2 == SetDirty(s1, FALSE)
         IN  [s2 EXCEPT !.status_path = StrOf(Parent(path)), !.notice = "bell"]
    ELSE [s EXCEPT !.notice = "error"]

\* TerminalIDE._current_dir
CurrentDir(s) == s.current_path

----------------------------------------------------------------------------
(* TerminalIDE: actions and event handlers *)

ActionRefreshTree(s) ==
    LET s1 == LoadDirectory(s, s.current_path)
    IN  [s1 EXCEPT !.status_path = StrOf(s1.current_path)]

\* action_go_up routed through the unsaved-changes confirmation
ActionGoUp_Gated(s) ==
    IF s.dirty
    THEN [s EXCEPT !.gates = Append(@, [next_file |-> NoPath, quitting |-> FALSE])]
    ELSE LET parent == Parent(s.current_path)
         IN  [LoadDirectory(s, parent) EXCEPT !.status_path = StrOf(parent)]

ActionGoUp(s) ==
    LET parent == Parent(s.current_path)
    IN  [LoadDirectory(s, parent) EXCEPT !.status_path = StrOf(parent)]

ActionToggleHidden(s) ==
    LoadDirectory([s EXCEPT !.show_hidden = ~@], s.current_path)

ActionFocusFilter(s) == [s EXCEPT !.focus = "filter"]

ActionToggleFocus(s) ==
    [s EXCEPT !.focus = IF @ = "editor" THEN "explorer" ELSE "editor"]

ActionOpenSelected(s, posts) ==
    IF ~HasSelected(s) THEN s
    ELSE LET entry == SelectedEntry(s)
         IN  IF entry.is_up THEN ActionGoUp(s)
             ELSE IF entry.is_dir
                  THEN [LoadDirectory(s, entry.path)
                          EXCEPT !.status_path = StrOf(entry.path)]
             ELSE OpenFile(s, entry.path, posts)

ActionSaveFileAs(s) ==
    LET target == IF s.current_file # NoPath THEN s.current_file
                  ELSE Append(CurrentDir(s), Untitled)
        s1 == SetInputValue(s, StrOf(target))
    IN  [s1 EXCEPT !.focus = "filter", !.awaiting_save_path = TRUE,
                   !.prompt_owner = s.last]

ActionSaveFile(s, ok) ==
    IF s.current_file = NoPath THEN ActionSaveFileAs(s)
    ELSE WriteToPath(s, s.current_file, ok)

\* _maybe_proceed_after_unsaved without the dirty check: it proceeds at once
MaybeProceed_NoPrompt(s, next_file, quitting, posts) ==
    IF quitting THEN [s EXCEPT !.exited = TRUE]
    ELSE IF next_file # NoPath THEN OpenFile(s, next_file, posts)
    ELSE s

\* _maybe_proceed_after_unsaved up to its await: on a dirty session the call
\* is suspended on the confirmation it pushes
MaybeProceedAfterUnsaved(s, next_file, quitting, posts) ==
    IF ~s.dirty
    THEN IF quitting THEN [s EXCEPT !.exited = TRUE]
         ELSE IF next_file # NoPath THEN OpenFile(s, next_file, posts)
         ELSE s
    ELSE [s EXCEPT !.gates = Append(@, [next_file |-> next_file,
                                         quitting |-> quitting])]

\* _maybe_proceed_after_unsaved with every answer but "save" taken as discard
Resume_CancelProceeds(s, next_file, quitting, answer, ok, posts) ==
    LET proceed(t) == IF quitting THEN [t EXCEPT !.exited = TRUE]
                      ELSE IF next_file # NoPath THEN OpenFile(t, next_file, posts)
                      ELSE t
    IN  IF answer = "save"
        THEN LET s1 == IF s.current_file = NoPath /\ next_file # NoPath
                       THEN [s EXCEPT !.current_file = next_file]
                       ELSE s
             IN  IF s1.current_file = NoPath THEN ActionSaveFileAs(s1)
                 ELSE proceed(WriteToPath(s1, s1.current_file, ok))
        ELSE proceed(s)

\* _maybe_proceed_after_unsaved from the answer of its confirmation on
ResumeAfterUnsaved(s, next_file, quitting, answer, ok, posts) ==
    LET proceed(t) == IF quitting THEN [t EXCEPT !.exited = TRUE]
                      ELSE IF next_file # NoPath THEN OpenFile(t, next_file, posts)
                      ELSE t
    IN  IF answer = "save"
        THEN LET s1 == IF s.current_file = NoPath /\ next_file # NoPath
                       THEN [s EXCEPT !.current_file = next_file]
                       ELSE s
             IN  IF s1.current_file = NoPath THEN ActionSaveFileAs(s1)
                 ELSE proceed(WriteToPath(s1, s1.current_file, ok))
        ELSE IF answer = "discard" THEN proceed(s)
        ELSE s

ActionQuit(s) == MaybeProceedAfterUnsaved(s, NoPath, TRUE, FALSE)

OnTextAreaChanged(s) == SetDirty(s, TRUE)

\* on_input_submitted without the reset of _awaiting_save_path
OnInputSubmitted_StaysInPrompt(s, value, ok) ==
    IF s.awaiting_save_path
    THEN LET s1 == WriteToPath(s, ResolveStr(value, s.start_path), ok)
         IN  SetInputValue(s1, <<>>)
    ELSE ApplyFilter(s, Lower(Strip(value)))

OnInputSubmitted(s, value, ok) ==
    IF s.awaiting_save_path
    THEN LET s1 == WriteToPath(s, ResolveStr(value, s.start_path), ok)
         IN  SetInputValue([s1 EXCEPT !.awaiting_save_path = FALSE], <<>>)
    ELSE ApplyFilter(s, Lower(Strip(value)))

OnInputChanged(s, value) ==
    IF s.awaiting_save_path THEN s
    ELSE ApplyFilter(s, Lower(Strip(value)))

----------------------------------------------------------------------------
(* The state machine *)

\* the texts the user leaves in the editor after an edit
EditTexts == {"", "x"}

\* the texts the user types into the input
TypedTexts == {<<>>, <<"a">>}

DirC  == <<<<"c">>>>
FileA == <<<<"a">>>>

\* the state once the widgets are mounted, on the filesystem fs started in start
Mounted(fs, start) ==
    LET es == Listing([dirs |-> fs.dirs, files |-> fs.files, denied |-> fs.denied,
                       show_hidden |-> FALSE], start)
    IN  /\ dirs = fs.dirs /\ files = fs.files /\ denied = fs.denied
        /\ start_path = start
        /\ current_path = start
        /\ show_hidden = FALSE
        /\ entries = es
        /\ children = es
        /\ index = 0
        /\ current_file = NoPath
        /\ dirty = FALSE
        /\ awaiting_save_path = FALSE
        /\ input_value = <<>>
        /\ status_path = StrOf(start)
        /\ status_dirty = FALSE
        /\ text = ""
        /\ focus = "explorer"
        /\ gates = <<>>
        /\ queue = <<>>
        /\ exited = FALSE
        /\ last = "mount"
        /\ notice = "none"
        /\ wrote = NoPath
        /\ prompt_owner = "none"

\* a root holding the directory c and the file a
SmallFs == [dirs |-> {Root, DirC}, files |-> (FileA :> ""), denied |-> {}]

Init == Mounted(SmallFs, Root)

\* no handler is running or suspended and no message waits
Idle == ~exited /\ gates = <<>> /\ queue = <<>>

\* the user moves the list cursor
SelectIndex ==
    /\ Idle /\ focus = "explorer"
    /\ \E i \in 0..(Len(children) - 1) :
          /\ i # index
          /\ Becomes([Begin("select") EXCEPT !.index = i])

\* Enter or a click on the selected entry; Posts: whether load_text may, or
\* may not, post TextArea.Changed in the framework build at hand
OpenSelected(Posts) ==
    /\ Idle /\ focus = "explorer"
    /\ \E posts \in Posts :
          Becomes(ActionOpenSelected(Begin("open_selected"), posts))

GoUp ==
    /\ Idle /\ focus = "explorer"
    /\ Becomes(ActionGoUp(Begin("go_up")))

RefreshTree ==
    /\ Idle /\ focus = "explorer"
    /\ Becomes(ActionRefreshTree(Begin("refresh_tree")))

ToggleHidden ==
    /\ Idle /\ focus = "explorer"
    /\ Becomes(ActionToggleHidden(Begin("toggle_hidden")))

FocusFilter ==
    /\ Idle /\ focus # "filter"
    /\ Becomes(ActionFocusFilter(Begin("focus_filter")))

ToggleFocus ==
    /\ Idle
    /\ Becomes(ActionToggleFocus(Begin("toggle_focus")))

\* the user changes the text in the editor: the TextArea posts Changed
EditBuffer ==
    /\ Idle /\ focus = "editor"
    /\ \E t \in EditTexts \ {text} :
          Becomes([Begin("edit") EXCEPT !.text = t,
                                        !.queue = Append(@, TextAreaChanged)])

SaveFile ==
    /\ Idle
    /\ \E ok \in BOOLEAN : Becomes(ActionSaveFile(Begin("save_file"), ok))

SaveFileAs ==
    /\ Idle
    /\ Becomes(ActionSaveFileAs(Begin("save_file_as")))

\* the user changes the text in the input: the Input posts Changed
TypeInput ==
    /\ Idle /\ focus = "filter"
    /\ \E v \in TypedTexts \ {input_value} :
          Becomes(SetInputValue(Begin("type"), v))

\* Enter in the input
SubmitInput ==
    /\ Idle /\ focus = "filter"
    /\ \E ok \in BOOLEAN :
          Becomes(OnInputSubmitted(Begin("input_submitted"), input_value, ok))

\* the next posted message reaches its handler
Deliver ==
    /\ ~exited /\ queue # <<>>
    /\ LET m == Head(queue)
       IN  IF m.kind = "TextArea.Changed"
           THEN Becomes(OnTextAreaChanged(
                    [Begin("text_area_changed") EXCEPT !.queue = Tail(@)]))
           ELSE Becomes(OnInputChanged(
                    [Begin("input_changed") EXCEPT !.queue = Tail(@)], m.value))

\* the quit binding; it has priority, so it also fires over a confirmation
Quit ==
    /\ ~exited /\ queue = <<>> /\ Len(gates) < MaxGates
    /\ Becomes(ActionQuit(Begin("quit")))

Answers == {"save", "discard", "cancel"}

ResumedAs(answer) ==
    CASE answer = "save" -> "confirm_save"
      [] answer = "discard" -> "confirm_discard"
      [] OTHER -> "confirm_cancel"

\* a button of the topmost confirmation is pressed: SaveConfirm dismisses with
\* its id and the call suspended on it resumes
Confirm ==
    /\ ~exited /\ gates # <<>>
    /\ LET g == gates[Len(gates)]
       IN  \E answer \in Answers, ok \in BOOLEAN :
             \E posts \in (IF g.next_file # NoPath THEN BOOLEAN ELSE {FALSE}) :
                Becomes(ResumeAfterUnsaved(
                    [Begin(ResumedAs(answer))
                        EXCEPT !.gates = SubSeq(@, 1, Len(@) - 1)],
                    g.next_file, g.quitting, answer, ok, posts))

Step(Posts) ==
    \/ SelectIndex \/ OpenSelected(Posts) \/ GoUp \/ RefreshTree \/ ToggleHidden
    \/ FocusFilter \/ ToggleFocus \/ EditBuffer \/ SaveFile \/ SaveFileAs
    \/ TypeInput \/ SubmitInput \/ Deliver \/ Quit \/ Confirm

\* any build of the framework
Next == Step(BOOLEAN)

Spec == Init /\ [][Next]_vars

\* a build whose load_text posts no TextArea.Changed: the session is dirty
\* only after the user edited the buffer
NextQuiet == Step({FALSE})

SpecQuiet == Init /\ [][NextQuiet]_vars

----------------------------------------------------------------------------
(* Navigation over a changing filesystem *)

DirD  == <<<<"c">>, <<"d">>>>
FileB == <<<<"B">>>>
FileH == <<<<".", "h">>>>

\* a root holding the directory c (holding the directory d) and the files
\* a, B and .h
NavFs ==
    [dirs |-> {Root, DirC, DirD},
     files |-> (FileA :> "") @@ (FileB :> "") @@ (FileH :> ""),
     denied |-> {}]

\* the same, the enumeration of c being refused or not
InitNav == \E dn \in {{}, {DirC}} : Mounted([NavFs EXCEPT !.denied = dn], Root)

\* the texts the user types as filter queries
QueryTexts == {<<>>, <<"a">>, <<" ", "B">>, <<"/">>}

\* the user changes the text in the input to a query
TypeQuery ==
    /\ Idle /\ focus = "filter"
    /\ \E v \in QueryTexts \ {input_value} :
          Becomes(SetInputValue(Begin("type"), v))

\* d is p or above p
IsPrefix(d, p) == Len(d) <= Len(p) /\ SubSeq(p, 1, Len(d)) = d

\* another process removes a directory, with all it holds, between two
\* handlers: what exists() and is_dir() of load_directory then answer
RemoveDir ==
    /\ ~exited
    /\ \E d \in dirs \ {Root} :
          Becomes([Cur EXCEPT
              !.dirs = {x \in @ : ~IsPrefix(d, x)},
              !.files = [f \in {x \in DOMAIN @ : ~IsPrefix(d, x)} |-> @[f]],
              !.last = "environment", !.notice = "none", !.wrote = NoPath])

NextNav ==
    \/ SelectIndex \/ OpenSelected(BOOLEAN) \/ GoUp \/ RefreshTree
    \/ ToggleHidden \/ FocusFilter \/ ToggleFocus \/ EditBuffer
    \/ TypeQuery \/ SubmitInput \/ Deliver \/ RemoveDir

SpecNav == InitNav /\ [][NextNav]_vars

----------------------------------------------------------------------------
(* The open of a file routed through the unsaved-changes confirmation: the  *)
(* call _maybe_proceed_after_unsaved(next_file=path) that the next_file     *)
(* parameter exists for.  No handler of main.py makes this call            *)
(* (action_open_selected opens the file directly), so it is kept out of     *)
(* Spec and studied in a specification of its own.                          *)

RequestOpen ==
    /\ Idle /\ focus = "explorer"
    /\ HasSelected(Cur)
    /\ ~SelectedEntry(Cur).is_up /\ ~SelectedEntry(Cur).is_dir
    /\ \E posts \in BOOLEAN :
          Becomes(MaybeProceedAfterUnsaved(Begin("request_open"),
                      SelectedEntry(Cur).path, FALSE, posts))

NextGatedOpen ==
    \/ SelectIndex \/ RequestOpen \/ FocusFilter \/ ToggleFocus
    \/ EditBuffer \/ SaveFile \/ SaveFileAs \/ TypeInput \/ SubmitInput
    \/ Deliver \/ Confirm

SpecGatedOpen == Init /\ [][NextGatedOpen]_vars

----------------------------------------------------------------------------
(* Claims *)

\* the selected entry is a file: Enter on it opens it
SelectedIsFile ==
    /\ HasSelected(Cur)
    /\ ~SelectedEntry(Cur).is_up
    /\ ~SelectedEntry(Cur).is_dir

\* the edit session and the navigation state are left as they were
SessionSame == current_file' = current_file /\ text' = text /\ dirty' = dirty

NavigationSame ==
    /\ current_path' = current_path /\ show_hidden' = show_hidden
    /\ entries' = entries /\ children' = children /\ index' = index
    /\ input_value' = input_value

QuitGate == [next_file |-> NoPath, quitting |-> TRUE]

\* C1: with a dirty session, Enter on a file entry does not replace the
\* buffer and does not reset dirty (the open waits for the confirmation).
C1_OpenIsGated ==
    [][(last' = "open_selected" /\ dirty /\ SelectedIsFile)
          => (dirty' /\ text' = text /\ current_file' = current_file)]_vars

\* C2: when the confirmation is answered Save and the write fails, the
\* pending action is not executed and the session stays dirty.
C2_FailedSaveCancels ==
    (last = "confirm_save" /\ notice = "error") => (~exited /\ dirty)

\* C3: quit on a clean session exits at once without a confirmation; quit on
\* a dirty session shows the confirmation and does not exit; the application
\* exits only by a quit on a clean session or by a confirmation answered Save
\* or Discard, never while the confirmation waits and never on Cancel.
C3_QuitGated ==
    [][/\ (last' = "quit" /\ ~dirty) => (exited' /\ gates' = gates)
       /\ (last' = "quit" /\ dirty)
             => (~exited' /\ gates' = Append(gates, QuitGate))
       /\ (~exited /\ exited')
             => \/ last' = "quit" /\ ~dirty
                \/ last' \in {"confirm_save", "confirm_discard"}]_vars

C3_Witness ==
    last = "confirm_cancel" /\ dirty /\ ~exited /\ gates = <<>>

\* C4: showing the confirmation and answering Cancel leave the edit session
\* (path, text, dirty = true) and the navigation state (directory, master
\* entries, view, filter text, selection) as they were, and nothing proceeds.
C4_CancelIsNoOp ==
    [][/\ (last' = "quit" /\ dirty)
             => (SessionSame /\ NavigationSame /\ files' = files)
       /\ (last' = "confirm_cancel")
             => /\ SessionSame /\ NavigationSame /\ files' = files
                /\ dirty' /\ ~exited'
                /\ awaiting_save_path' = awaiting_save_path
                /\ gates' = SubSeq(gates, 1, Len(gates) - 1)]_vars

C4_Witness ==
    /\ last = "confirm_cancel" /\ dirty /\ ~exited
    /\ Len(children) < Len(entries) /\ index > 0
    /\ current_file # NoPath

\* C5: when the confirmation of a pending quit is answered Save on a session
\* without a path, and the path then submitted in the prompt is written, the
\* pending quit is executed.
C5_SaveAsThenProceeds ==
    [][(awaiting_save_path /\ prompt_owner = "confirm_save"
            /\ last' = "input_submitted" /\ notice' = "bell")
          => exited']_vars

\* C6: once the message the open queued (the TextArea.Changed of loading the
\* text) is handled, the session is still clean and on the opened file.
C6_OpenLeavesClean ==
    [][(last = "open_selected" /\ last' = "text_area_changed")
          => (~dirty' /\ current_file' = current_file)]_vars

\* C7: a step that clears dirty is a write that succeeded or the opening of
\* a file; no other step clears it.
C7_DirtyMonotone ==
    [][(dirty /\ ~dirty')
          => \/ wrote' # NoPath
             \/ last' = "open_selected" /\ SelectedIsFile]_vars

C7_Witness == last = "save_file" /\ notice = "error" /\ dirty

\* C8: a save (of the session's path, or of the path submitted in the prompt)
\* whose write fails leaves path, text and dirty as they were and signals an
\* error.
C8_FailedSaveUnchanged ==
    [][(/\ \/ last' = "save_file" /\ current_file # NoPath
           \/ last' = "input_submitted" /\ awaiting_save_path
        /\ wrote' = NoPath)
          => (SessionSame /\ files' = files /\ notice' = "error")]_vars

C8_Witness ==
    /\ last = "input_submitted" /\ notice = "error" /\ dirty
    /\ current_file # NoPath

\* C9: save on a session without a path opens the prompt and writes nothing;
\* a path then submitted and written becomes the session's path, dirty is
\* false and the prompt is over: a text submitted outside the prompt filters
\* the list and writes nothing.
C9_SaveNewBuffer ==
    [][/\ (last' = "save_file" /\ current_file = NoPath)
             => /\ awaiting_save_path' /\ wrote' = NoPath /\ files' = files
                /\ SessionSame
       /\ (last' = "input_submitted" /\ awaiting_save_path /\ wrote' # NoPath)
             => /\ current_file' = ResolveStr(input_value, start_path)
                /\ wrote' = current_file'
                /\ files'[current_file'] = text
                /\ ~dirty' /\ ~awaiting_save_path'
       /\ (last' = "input_submitted" /\ ~awaiting_save_path)
             => /\ wrote' = NoPath /\ files' = files
                /\ children' = Filtered(entries, Lower(Strip(input_value)))]_vars

C9_Witness ==
    /\ last = "input_submitted" /\ prompt_owner = "save_file"
    /\ wrote = Append(Root, Untitled) /\ current_file = wrote
    /\ ~dirty /\ ~awaiting_save_path

\* C10: when, with the save-path prompt open, the focus leaves the input or
\* focus-filter is invoked, nothing is written, the session is unchanged and
\* the prompt is over; and a text submitted after the focus had left the
\* prompt is not written to.
C10_AbandonEndsPrompt ==
    [][/\ (/\ awaiting_save_path
           /\ \/ focus = "filter" /\ focus' # "filter"
              \/ last' = "focus_filter")
             => (~awaiting_save_path' /\ SessionSame /\ files' = files)
       /\ (last = "focus_filter" /\ last' = "input_submitted")
             => wrote' = NoPath]_vars

----------------------------------------------------------------------------
(* Claims about the explorer *)

NavigationOps == {"go_up", "refresh_tree", "toggle_hidden"}

\* the selected entry, when the step is Enter on a directory or on ".."
EntersDirectory ==
    /\ last' = "open_selected"
    /\ HasSelected(Cur)
    /\ SelectedEntry(Cur).is_up \/ SelectedEntry(Cur).is_dir

\* the step applies the filter box to the explorer
SetsFilter ==
    /\ last' \in {"input_changed", "input_submitted"}
    /\ ~awaiting_save_path

\* the directory the step asks the explorer to list, NoPath when it asks none
NavTarget ==
    CASE last' = "go_up" -> Parent(current_path)
      [] last' \in {"refresh_tree", "toggle_hidden"} -> current_path
      [] EntersDirectory /\ SelectedEntry(Cur).is_up -> Parent(current_path)
      [] EntersDirectory /\ ~SelectedEntry(Cur).is_up -> SelectedEntry(Cur).path
      [] OTHER -> NoPath

\* C11: entering a directory or the parent link, going up, toggling hidden
\* entries, refreshing and filtering open no confirmation, even with unsaved
\* changes, and leave the session's path, text and dirty flag (and the files
\* on disk, and the application running) as they were.
C11_NavigationUngated ==
    [][(last' \in NavigationOps \/ EntersDirectory \/ SetsFilter)
          => /\ SessionSame
             /\ gates' = gates
             /\ files' = files
             /\ exited' = exited]_vars

\* a dirty, edited buffer after Enter took the explorer into /c
C11_Witness ==
    /\ last = "open_selected"
    /\ current_path = DirC
    /\ dirty
    /\ text = "x"
    /\ gates = <<>>

OneParentLinkFirst(es) ==
    /\ Len(es) >= 1
    /\ es[1].is_up
    /\ \A i \in 2..Len(es) : ~es[i].is_up

\* C12: in every reachable state the master list and the view each hold
\* exactly one parent link, first, whatever the query and the hidden setting;
\* the link leads to the parent of the current directory; and a directory that
\* cannot be enumerated lists the parent link alone.
C12_ParentLinkInvariant ==
    /\ OneParentLinkFirst(entries)
    /\ OneParentLinkFirst(children)
    /\ entries[1].path = Parent(current_path)
    /\ children[1] = entries[1]
    /\ \A q \in QueryTexts : OneParentLinkFirst(Filtered(entries, q))
    /\ current_path \in denied => Len(entries) = 1 /\ Len(children) = 1

\* inside the unreadable directory /c, reached with Enter
C12_Witness ==
    /\ last = "open_selected"
    /\ current_path = DirC
    /\ DirC \in denied
    /\ DirC \in dirs
    /\ children = <<Entry(Root, TRUE, TRUE, <<".", ".">>)>>

\* the text of the filter box the step acts on
QueryOfStep == IF last' = "input_submitted" THEN input_value ELSE Head(queue).value

\* the parent link plus every entry whose display name contains q, whatever
\* the case of the letters; the whole list when q is empty
MatchingEntries(es, q) ==
    LET Keep(e) == e.is_up \/ Contains(Lower(q), Lower(e.name))
    IN  IF q = <<>> THEN es ELSE SelectSeq(es, Keep)

\* C13 (as stated): for every text q typed or submitted in the filter box the
\* view is the parent link plus the entries whose display name contains q,
\* case-insensitively, in list order (the whole list when q is empty), and the
\* master list is not modified.
C13_FilterByTypedText ==
    [][SetsFilter
          => /\ children' = MatchingEntries(entries, QueryOfStep)
             /\ entries' = entries]_vars

\* C13 (amended): the same with q the typed or submitted text stripped of
\* leading and trailing whitespace.
C13_FilterByStrippedText ==
    [][SetsFilter
          => /\ children' = MatchingEntries(entries, Strip(QueryOfStep))
             /\ entries' = entries]_vars

\* " B" typed in the root: the view is the parent link and the file B
C13_Witness ==
    /\ last = "input_changed"
    /\ input_value = <<" ", "B">>
    /\ current_path = Root
    /\ Len(children) = 2
    /\ children[2].path = FileB
    /\ Len(entries) > 2

\* the step is go-up, or Enter on the parent link
GoesToParent ==
    \/ last' = "go_up"
    \/ EntersDirectory /\ SelectedEntry(Cur).is_up

\* C14: at the filesystem root, going up and entering the parent link leave
\* the current directory equal to the root, report no error, and the parent
\* link of the listing leads to the root itself.
C14_RootSelfLoop ==
    [][(current_path = Root /\ GoesToParent)
          => /\ current_path' = Root
             /\ notice' # "error"
             /\ entries'[1].is_up
             /\ entries'[1].path = Root]_vars

\* after going up with every directory but the root removed and the hidden
\* file listed: the root is listed afresh, its parent link leading to itself
C14_Witness ==
    /\ last = "go_up"
    /\ current_path = Root
    /\ dirs = {Root}
    /\ show_hidden
    /\ entries[1].path = Root
    /\ children = entries
    /\ Len(entries) = 4

NamesAscend(p, q) == ~LexLess(Lower(BaseName(q)), Lower(BaseName(p)))

\* directories before files, each group in non-decreasing lower-case name
ListedInOrder(es) ==
    \A i, j \in 2..Len(es) :
        i < j => /\ es[i].is_dir \/ ~es[j].is_dir
                 /\ es[i].is_dir = es[j].is_dir => NamesAscend(es[i].path, es[j].path)

\* the step lists a directory that exists
Relists == NavTarget # NoPath /\ NavTarget \in dirs

\* C15: whenever a directory is listed, the entries after the parent link are
\* the directories followed by the files, each group in non-decreasing order
\* of lower-case name; with hidden entries off no listed name begins with
\* ".", and with them on every child of a readable directory is listed.
C15_ListingOrder ==
    [][Relists
          => /\ ListedInOrder(entries')
             /\ \A i \in 2..Len(entries') :
                   /\ Parent(entries'[i].path) = NavTarget
                   /\ entries'[i].is_dir = (entries'[i].path \in dirs)
                   /\ ~show_hidden' => Head(entries'[i].name) # "."
             /\ (show_hidden' /\ NavTarget \notin denied)
                   => {entries'[i].path : i \in 2..Len(entries')}
                         = ChildrenOf(Cur, NavTarget)]_vars

\* the root listed with hidden entries on: c/, then .h, a, B
C15_Witness ==
    /\ last = "toggle_hidden"
    /\ show_hidden
    /\ current_path = Root
    /\ DirC \in dirs
    /\ [i \in 1..Len(entries) |-> entries[i].path] = <<Root, DirC, FileH, FileA, FileB>>

\* C16: after every successful directory change or re-list the filter text is
\* empty, the view is the whole master list of the directory and the first
\* entry is selected; and the text held by the filter box and the view shown
\* never disagree.
C16_ListingResetsFilter ==
    [][Relists
          => /\ input_value' = <<>>
             /\ children' = entries'
             /\ index' = 0]_vars

\* C18: a directory change to a target that does not exist or is not a
\* directory leaves the current directory, the master list, the view and the
\* selection as they were, and reports no error.
C18_FailedChangeIsNoOp ==
    [][(NavTarget # NoPath /\ NavTarget \notin dirs)
          => /\ current_path' = current_path
             /\ entries' = entries
             /\ children' = children
             /\ index' = index
             /\ show_hidden' = show_hidden \/ last' = "toggle_hidden"
             /\ notice' # "error"
             /\ exited' = exited]_vars

\* Enter was pressed on the listed directory c after c was removed: the
\* explorer is still in the root with c selected
C18_Witness ==
    /\ last = "open_selected"
    /\ current_path = Root
    /\ DirC \notin dirs
    /\ HasSelected(Cur)
    /\ SelectedEntry(Cur).path = DirC
    /\ SelectedEntry(Cur).is_dir

\* C19: the directory shown in the status bar is the explorer's current
\* directory, after any sequence of intents.
C19_StatusShowsCurrentDir == status_path = StrOf(current_path)

----------------------------------------------------------------------------
(* Claims about the confirmation *)

\* C17: at most one confirmation is open at any time (a second gated request
\* replaces the pending one instead of opening another).
C17_SingleGate == Len(gates) <= 1

=============================================================================
